---- MODULE Spec2Model ----
(***************************************************************************)
(* A model of src/main.py: one Blockchain object (chain, pending pool,     *)
(* peer set) behind five request handlers, and the peers it asks for their *)
(* chains.  Every handler runs to completion as one step.                  *)
(*                                                                         *)
(* Python values are modelled as follows.                                  *)
(*  - A list is a sequence; None where a hash is expected is <<>>.         *)
(*  - A block is a record of its five fields plus cls, which tells a       *)
(*    pydantic Block ("Block") from the dict ("dict") that                 *)
(*    response.json() yields for the same JSON object.  Attribute access   *)
(*    (block.proof, block.json()) on a dict raises AttributeError.         *)
(*  - A SHA-256 hex digest of a block is the tuple of what was hashed      *)
(*    (equal digests iff equal encodings).  The digest of a proof guess    *)
(*    is scaled down so that the search of proof_of_work is short.         *)
(*  - A raised exception ends the handler; exc names it ("none" if the     *)
(*    handler returned).                                                   *)
(***************************************************************************)
EXTENDS Integers, Sequences, FiniteSets, TLC

\* ---------------------------------------------------------------- bounds
MaxTime == 4        \* requests and peer changes observed
MaxAmount == 2      \* submitted transactions have amount 1..MaxAmount
MaxPeerChain == 2   \* blocks in a chain a peer serves

\* ------------------------------------------------------- digest of a guess
\* The digest is scaled down: DigestLen characters over an alphabet of
\* HexBase characters, mixed from the bytes of the guess.
HexBase == 2
DigestLen == 6
MixMult == 37
MixSeed == 11
ZeroPrefix == 4

RECURSIVE Pow(_, _)
Pow(b, e) == IF e = 0 THEN 1 ELSE b * Pow(b, e - 1)

\* str(n) for n >= 0, as the sequence of its decimal digits
RECURSIVE str(_)
str(n) == IF n < 10 THEN <<n>> ELSE Append(str(n \div 10), n % 10)

\* .encode(): the byte of a decimal digit character
encode(digits) == [i \in 1..Len(digits) |-> 48 + digits[i]]

RECURSIVE Mix(_, _, _)
Mix(bytes, i, acc) ==
    IF i > Len(bytes) THEN acc
    ELSE Mix(bytes, i + 1, (acc * MixMult + bytes[i]) % Pow(HexBase, DigestLen))

\* hashlib.sha256(bytes).hexdigest(): the characters of the mixed value, the
\* least significant first (so that neighbouring guesses differ in the prefix)
sha256_hexdigest(bytes) ==
    LET a == Mix(bytes, 1, MixSeed)
    IN  [i \in 1..DigestLen |-> (a \div Pow(HexBase, i - 1)) % HexBase]

valid_proof(last_proof, proof) ==
    LET guess == encode(str(last_proof) \o str(proof))
        guess_hash == sha256_hexdigest(guess)
    IN  SubSeq(guess_hash, 1, ZeroPrefix) = [i \in 1..ZeroPrefix |-> 0]

RECURSIVE proof_search(_, _)
proof_search(last_proof, proof) ==
    IF valid_proof(last_proof, proof) THEN proof
    ELSE proof_search(last_proof, proof + 1)

\* proof_of_work starting its search at 1
proof_of_work_from_one(last_proof) == proof_search(last_proof, 1)

\* proof_of_work returning the value after the loop's last increment
proof_of_work_off(last_proof) == proof_search(last_proof, 0) + 1

proof_of_work(last_proof) == proof_search(last_proof, 0)

\* ------------------------------------------------------------ data model
Transaction(sender, recipient, amount) ==
    [sender |-> sender, recipient |-> recipient, amount |-> amount]

Block(cls, index, timestamp, transactions, proof, previous_hash) ==
    [cls |-> cls, index |-> index, timestamp |-> timestamp,
     transactions |-> transactions, proof |-> proof,
     previous_hash |-> previous_hash]

\* previous_hash=1 of the genesis block, coerced to the text "1"
Sentinel == <<"1">>
None == <<>>
GenesisProof == 100

node_id == "node"

\* Blockchain.hash: the digest of the JSON text of the five fields
hash(block) ==
    <<"sha256", block.index, block.timestamp, block.transactions,
      block.proof, block.previous_hash>>

\* Blockchain.last_block
last_block(ch) == ch[Len(ch)]

\* new_block without the reset of the pool
new_block_keep_pool(ch, txs, proof, previous_hash, time) ==
    LET block == Block("Block", Len(ch) + 1, time, txs, proof,
                       IF previous_hash # None THEN previous_hash
                       ELSE hash(ch[Len(ch)]))
    IN  [chain |-> Append(ch, block), current_transactions |-> txs,
         block |-> block]

\* new_block building the block without the pool's transactions
new_block_empty_block(ch, txs, proof, previous_hash, time) ==
    LET block == Block("Block", Len(ch) + 1, time, <<>>, proof,
                       IF previous_hash # None THEN previous_hash
                       ELSE hash(ch[Len(ch)]))
    IN  [chain |-> Append(ch, block), current_transactions |-> <<>>,
         block |-> block]

\* Blockchain.new_block on chain ch and pool txs, with time() = time
new_block(ch, txs, proof, previous_hash, time) ==
    LET block == Block("Block", Len(ch) + 1, time, txs, proof,
                       IF previous_hash # None THEN previous_hash
                       ELSE hash(ch[Len(ch)]))
    IN  [chain |-> Append(ch, block), current_transactions |-> <<>>,
         block |-> block]

\* new_transaction returning the index of the last block
Blockchain_new_transaction_last(ch, txs, transaction) ==
    [current_transactions |-> Append(txs, transaction),
     exc |-> IF last_block(ch).cls = "Block" THEN "none" ELSE "AttributeError",
     index |-> IF last_block(ch).cls = "Block" THEN last_block(ch).index ELSE 0]

\* Blockchain.new_transaction: the append happens before last_block.index
\* is read, so the pool grows even when that read raises
Blockchain_new_transaction(ch, txs, transaction) ==
    [current_transactions |-> Append(txs, transaction),
     exc |-> IF last_block(ch).cls = "Block" THEN "none" ELSE "AttributeError",
     index |-> IF last_block(ch).cls = "Block" THEN last_block(ch).index + 1
               ELSE 0]

\* a constructor whose genesis block has proof 0
Blockchain_init_proof_zero == new_block(<<>>, <<>>, 0, Sentinel, 0)

\* a constructor that creates no genesis block
Blockchain_init_empty == [chain |-> <<>>, current_transactions |-> <<>>]

\* Blockchain.__init__ at time 0
Blockchain_init == new_block(<<>>, <<>>, GenesisProof, Sentinel, 0)

\* ------------------------------------------------------- chain validation
\* Blockchain.valid_chain, from position index (1-based) on.  The outcome is
\* "True", "False" or the exception raised: block.previous_hash and
\* previous_block.json() need Block objects.
RECURSIVE valid_chain_loop(_, _)
valid_chain_loop(ch, index) ==
    IF index > Len(ch) THEN "True"
    ELSE IF ch[index].cls # "Block" \/ ch[index - 1].cls # "Block"
         THEN "AttributeError"
    ELSE IF ch[index].previous_hash # hash(ch[index - 1]) THEN "False"
    ELSE IF ~valid_proof(ch[index - 1].proof, ch[index].proof) THEN "False"
    ELSE valid_chain_loop(ch, index + 1)

valid_chain(ch) ==
    IF Len(ch) = 0 THEN "IndexError" ELSE valid_chain_loop(ch, 2)

\* ------------------------------------------------------------------ peers
\* Network locations that answer, and the addresses a caller may register.
Peers == {"p1", "p2"}
Addresses == {"http://p1", "http://p2", "p2"}

\* urlparse(address).netloc: empty when the address has no scheme
netloc(address) ==
    CASE address = "http://p1" -> "p1"
      [] address = "http://p2" -> "p2"
      [] OTHER -> ""

\* What response.json() holds for a served chain: dicts, never Block objects
json(ch) == [i \in 1..Len(ch) |-> [ch[i] EXCEPT !.cls = "dict"]]

\* The chain of k blocks a peer running this program has after k - 1 calls
\* of mine() (no transactions submitted, its clock at 0)
RECURSIVE MinedChain(_)
MinedChain(k) ==
    IF k = 1 THEN <<Block("Block", 1, 0, <<>>, GenesisProof, Sentinel)>>
    ELSE LET c == MinedChain(k - 1)
             prev == c[Len(c)]
         IN  Append(c, Block("Block", k, 0, <<>>, proof_of_work(prev.proof), hash(prev)))

\* The same chain with the last block tampered: its proof or its link (a
\* chain of one block has no pair to break: its index is changed instead)
Tampered(c) ==
    LET k == Len(c)
    IN  IF k = 1 THEN { [c EXCEPT ![1].index = 2] }
        ELSE { [c EXCEPT ![k].proof = c[k].proof + 1],
               [c EXCEPT ![k].previous_hash = Sentinel] }

\* The chains a peer may serve: nothing, a mined chain, a tampered one
PeerChains ==
    { <<>> } \cup UNION { {MinedChain(k)} \cup Tampered(MinedChain(k)) : k \in 1..MaxPeerChain }

\* requests.get(...): the request raises (raised), or returns a status code
\* and, for 200, a body with the chain and the length the peer reports (the
\* number of blocks it serves, or more)
Unreachable == [raised |-> TRUE, status_code |-> 0, chain |-> <<>>, length |-> 0]
NotFound == [raised |-> FALSE, status_code |-> 404, chain |-> <<>>, length |-> 0]
Responses ==
    { Unreachable, NotFound } \cup
    UNION { { [raised |-> FALSE, status_code |-> 200, chain |-> json(c), length |-> n] :
                n \in {Len(c), MaxPeerChain + 1} } : c \in PeerChains }

\* requests.get(f"http://{node}/chain") for every location that can be
\* registered: a location that is no peer (the empty netloc) cannot be reached
Fetch(resp) ==
    [n \in Peers \cup {""} |-> IF n \in Peers THEN resp[n] ELSE Unreachable]

\* ----------------------------------------------------------- consensus
\* The state of the loop of resolve_conflicts: new_chain is None until set
NoChain == [set |-> FALSE, chain |-> <<>>]

\* `if new_chain:` is false for None and for an empty list
truthy(new_chain) == new_chain.set /\ Len(new_chain.chain) > 0

\* The loop over neighbours in the order `order`, from position i on, with
\* the responses resp; ends with the exception raised or "none"
RECURSIVE resolve_loop(_, _, _, _, _)
resolve_loop(order, i, resp, max_length, new_chain) ==
    IF i > Len(order)
    THEN [exc |-> "none", max_length |-> max_length, new_chain |-> new_chain]
    ELSE LET response == resp[order[i]]
         IN  IF response.raised
             THEN [exc |-> "RequestException", max_length |-> max_length,
                   new_chain |-> new_chain]
             ELSE IF response.status_code # 200 \/ ~(response.length > max_length)
             THEN resolve_loop(order, i + 1, resp, max_length, new_chain)
             ELSE LET v == valid_chain(response.chain)
                  IN  IF v = "True"
                      THEN resolve_loop(order, i + 1, resp, response.length,
                                        [set |-> TRUE, chain |-> response.chain])
                      ELSE IF v = "False"
                      THEN resolve_loop(order, i + 1, resp, max_length, new_chain)
                      ELSE [exc |-> v, max_length |-> max_length,
                            new_chain |-> new_chain]

\* Blockchain.resolve_conflicts on chain ch
resolve_conflicts(ch, order, resp) ==
    LET r == resolve_loop(order, 1, resp, Len(ch), NoChain)
    IN  IF r.exc # "none"
        THEN [exc |-> r.exc, replaced |-> FALSE, chain |-> ch]
        ELSE IF truthy(r.new_chain)
        THEN [exc |-> "none", replaced |-> TRUE, chain |-> r.new_chain.chain]
        ELSE [exc |-> "none", replaced |-> FALSE, chain |-> ch]

\* The orders in which a set can be iterated
Orders(S) ==
    { o \in [1..Cardinality(S) -> S] : \A i, j \in 1..Cardinality(S) : o[i] = o[j] => i = j }

\* ------------------------------------------------------------------ state
VARIABLES
    chain,                 \* blockchain.chain
    current_transactions,  \* blockchain.current_transactions
    nodes,                 \* blockchain.nodes
    peer_response,         \* what each peer answers to GET /chain now
    now,                   \* time(), one tick per step
    last,                  \* the last request handled and its outcome
    promised,              \* the indices returned for the transactions in the pool
    served,                \* the promises the last mined block had to keep
    accepted,              \* how often each transaction was submitted and acknowledged
    body                   \* the body of the last response, if it was to GET /chain

vars == <<chain, current_transactions, nodes, peer_response, now, last,
          promised, served, accepted, body>>

\* The response of a handler other than get_full_chain carries no chain
NoBody == [chain |-> <<>>, length |-> -1]

\* The state of the other specifications of this module, which the
\* specifications of the application leave alone
VARIABLES
    pure,                  \* a call of a function on its own: arguments and results
    net,                   \* a network of nodes that are each other's peers
    threads                \* the requests being handled at the same time

aux == <<pure, net, threads>>

\* No function has been called on its own
NoCalls == [last_proof |-> 0, proof |-> -1, candidate |-> <<>>, verdict |-> "none"]

\* The nodes of the network, each one a process running this application
Members == {"n1", "n2", "n3"}

\* The network when every node has just been started: ledger is each node's
\* blockchain, time is time(), last the last request made to a node, resolved
\* says which nodes ended a resolve since the last mine, peak is the length
\* of the longest chain right after the last mine
NetStart ==
    [ledger |-> [n \in Members |-> [chain |-> Blockchain_init.chain,
                                    current_transactions |->
                                        Blockchain_init.current_transactions]],
     time |-> 0,
     last |-> [node |-> "", op |-> "init", exc |-> "none", replaced |-> FALSE],
     resolved |-> [n \in Members |-> FALSE],
     peak |-> 1]

\* The worker threads that run the handlers (the routes are plain `def`
\* functions, which the framework runs in a pool of threads)
MaxThreads == 2
Threads == 1..MaxThreads

\* A thread that handles no request.  The fields are the local variables of
\* the handlers: pc is the position, tx the transaction of the request,
\* last_block, proof, previous_hash those of mine, block the one of
\* new_block, max_length and new_chain those of resolve_conflicts; ref is
\* the list that the response of get_full_chain refers to, same_list says
\* that it is still the list blockchain.chain, length is the length read,
\* seen the values blockchain.chain had during the read
NoBlock == Block("", 0, 0, <<>>, 0, None)
Idle ==
    [pc |-> "idle", tx |-> Transaction("", "", 0), last_block |-> NoBlock,
     proof |-> 0, previous_hash |-> None, block |-> NoBlock,
     max_length |-> 0, new_chain |-> NoChain,
     ref |-> <<>>, same_list |-> FALSE, length |-> 0, seen |-> {}]

AuxIdle == pure = NoCalls /\ net = NetStart /\ threads = [t \in Threads |-> Idle]

\* A transaction, the index its submission returned, and whether a resolve
\* ran since
Promise(tx, index, resolved) == [tx |-> tx, index |-> index, resolved |-> resolved]

Outcome(op, exc, index, replaced) ==
    [op |-> op, exc |-> exc, index |-> index, replaced |-> replaced]

TxSet == { Transaction("alice", "bob", a) : a \in 1..MaxAmount }
Reward == Transaction("0", node_id, 1)

Init ==
    /\ chain = Blockchain_init.chain
    /\ current_transactions = Blockchain_init.current_transactions
    /\ nodes = {}
    /\ peer_response = [p \in Peers |-> Unreachable]
    /\ now = 0
    /\ last = Outcome("init", "none", 0, FALSE)
    /\ promised = {}
    /\ served = {}
    /\ accepted = [tx \in TxSet |-> 0]
    /\ body = NoBody
    /\ AuxIdle

\* GET /mine
mine ==
    /\ now < MaxTime
    /\ now' = now + 1
    /\ UNCHANGED aux
    /\ UNCHANGED <<nodes, peer_response, accepted>>
    /\ body' = NoBody
    /\ IF last_block(chain).cls # "Block"
       THEN \* last_block.proof raises before anything is changed
            /\ UNCHANGED <<chain, current_transactions, promised, served>>
            /\ last' = Outcome("mine", "AttributeError", 0, FALSE)
       ELSE LET lb == last_block(chain)
                proof == proof_of_work(lb.proof)
                t == Blockchain_new_transaction(chain, current_transactions, Reward)
                previous_hash == hash(lb)
                b == new_block(chain, t.current_transactions, proof,
                               previous_hash, now')
            IN  /\ chain' = b.chain
                /\ current_transactions' = b.current_transactions
                /\ last' = Outcome("mine", "none", b.block.index, FALSE)
                /\ served' = promised
                /\ promised' = {}

\* POST /transactions
new_transaction ==
    \E transaction \in TxSet :
        LET t == Blockchain_new_transaction(chain, current_transactions, transaction)
        IN  /\ now < MaxTime
            /\ now' = now + 1
            /\ UNCHANGED aux
            /\ current_transactions' = t.current_transactions
            /\ last' = Outcome("new_transaction", t.exc, t.index, FALSE)
            /\ promised' = IF t.exc = "none"
                           THEN promised \cup {Promise(transaction, t.index, FALSE)}
                           ELSE promised
            /\ accepted' = IF t.exc = "none"
                           THEN [accepted EXCEPT ![transaction] = @ + 1]
                           ELSE accepted
            /\ body' = NoBody
            /\ UNCHANGED <<chain, nodes, peer_response, served>>

\* GET /chain
get_full_chain ==
    /\ now < MaxTime
    /\ now' = now + 1
    /\ UNCHANGED aux
    /\ last' = Outcome("get_full_chain", "none", Len(chain), FALSE)
    /\ body' = [chain |-> chain, length |-> Len(chain)]
    /\ UNCHANGED <<chain, current_transactions, nodes, peer_response,
                   promised, served, accepted>>

\* POST /nodes/
register_new_nodes ==
    \E ns \in SUBSET Addresses :
        /\ now < MaxTime
        /\ now' = now + 1
        /\ UNCHANGED aux
        /\ nodes' = nodes \cup { netloc(a) : a \in ns }
        /\ last' = Outcome("register_new_nodes", "none", Cardinality(ns), FALSE)
        /\ body' = NoBody
        /\ UNCHANGED <<chain, current_transactions, peer_response,
                       promised, served, accepted>>

\* GET /nodes/resolve, the set of nodes being iterated in the order `order`
consesus ==
    \E order \in Orders(nodes) :
        LET r == resolve_conflicts(chain, order, Fetch(peer_response))
        IN  /\ now < MaxTime
            /\ now' = now + 1
            /\ UNCHANGED aux
            /\ chain' = r.chain
            /\ last' = Outcome("consesus", r.exc, 0, r.replaced)
            /\ promised' = { [a EXCEPT !.resolved = TRUE] : a \in promised }
            /\ body' = NoBody
            /\ UNCHANGED <<current_transactions, nodes, peer_response, served,
                           accepted>>

\* The environment: a registered peer comes up, goes down, or serves another
\* chain or length (the answers of a peer nobody asks are not tracked)
peer_change ==
    \E p \in nodes \cap Peers, r \in Responses :
        /\ now < MaxTime
        /\ now' = now + 1
        /\ UNCHANGED aux
        /\ r # peer_response[p]
        /\ peer_response' = [peer_response EXCEPT ![p] = r]
        /\ last' = Outcome("peer_change", "none", 0, FALSE)
        /\ UNCHANGED <<chain, current_transactions, nodes, promised, served,
                       accepted, body>>

Next ==
    \/ mine
    \/ new_transaction
    \/ get_full_chain
    \/ register_new_nodes
    \/ consesus
    \/ peer_change

Spec == Init /\ [][Next]_vars


\* A node among peers whose answers do not change: p1 serves one answer from
\* the start, p2 is down
InitFixedPeers ==
    /\ chain = Blockchain_init.chain
    /\ current_transactions = Blockchain_init.current_transactions
    /\ nodes = {}
    /\ peer_response \in { [p \in Peers |-> IF p = "p1" THEN r ELSE Unreachable] :
                              r \in Responses }
    /\ now = 0
    /\ last = Outcome("init", "none", 0, FALSE)
    /\ promised = {}
    /\ served = {}
    /\ accepted = [tx \in TxSet |-> 0]
    /\ body = NoBody
    /\ AuxIdle

NextFixedPeers ==
    \/ mine
    \/ new_transaction
    \/ get_full_chain
    \/ register_new_nodes
    \/ consesus

SpecFixedPeers == InitFixedPeers /\ [][NextFixedPeers]_vars

\* ------------------------------------------------- functions on their own
\* proof_of_work and valid_chain called once on arguments of the caller's
\* choice, on a ledger that is otherwise left alone
MaxLastProof == 9

\* chain c with another index in its last block, whose hash nothing checks
Renumbered(c) == [c EXCEPT ![Len(c)].index = 0]

\* The candidates handed to valid_chain: lists of Block objects, the same
\* with another index, and the lists of dicts that resolve_conflicts passes
Candidates ==
    PeerChains \cup { Renumbered(c) : c \in PeerChains \ {<<>>} }
               \cup { json(c) : c \in PeerChains }

InitPure ==
    /\ chain = Blockchain_init.chain
    /\ current_transactions = Blockchain_init.current_transactions
    /\ nodes = {}
    /\ peer_response = [p \in Peers |-> Unreachable]
    /\ now = 0
    /\ last = Outcome("init", "none", 0, FALSE)
    /\ promised = {}
    /\ served = {}
    /\ accepted = [tx \in TxSet |-> 0]
    /\ body = NoBody
    /\ pure \in { [last_proof |-> lp, proof |-> -1, candidate |-> c, verdict |-> "none"] :
                     lp \in 0..MaxLastProof, c \in Candidates }
    /\ net = NetStart
    /\ threads = [t \in Threads |-> Idle]

\* blockchain.proof_of_work(last_proof)
call_proof_of_work ==
    /\ pure.proof = -1
    /\ pure' = [pure EXCEPT !.proof = proof_of_work(pure.last_proof)]
    /\ UNCHANGED <<vars, net, threads>>

\* blockchain.valid_chain(candidate)
call_valid_chain ==
    /\ pure.verdict = "none"
    /\ pure' = [pure EXCEPT !.verdict = valid_chain(pure.candidate)]
    /\ UNCHANGED <<vars, net, threads>>

NextPure ==
    \/ call_proof_of_work
    \/ call_valid_chain

SpecPure == InitPure /\ [][NextPure]_<<vars, aux>>

\* ------------------------------------------------------------ the network
\* Every member runs the application and has every other member registered;
\* a member's chain changes only by its own mine() and resolve(); GET /chain
\* of a member answers 200 with its chain and the length of that chain.
MaxNetTime == 4

RECURSIVE Longest(_, _)
Longest(ledger, S) ==
    IF S = {} THEN 0
    ELSE LET n == CHOOSE n \in S : TRUE
             rest == Longest(ledger, S \ {n})
         IN  IF Len(ledger[n].chain) > rest THEN Len(ledger[n].chain) ELSE rest

InitNet ==
    /\ chain = Blockchain_init.chain
    /\ current_transactions = Blockchain_init.current_transactions
    /\ nodes = {}
    /\ peer_response = [p \in Peers |-> Unreachable]
    /\ now = 0
    /\ last = Outcome("init", "none", 0, FALSE)
    /\ promised = {}
    /\ served = {}
    /\ accepted = [tx \in TxSet |-> 0]
    /\ body = NoBody
    /\ pure = NoCalls
    /\ net = NetStart
    /\ threads = [t \in Threads |-> Idle]

\* GET /mine of member n
net_mine(n) ==
    LET l == net.ledger[n]
        tip == last_block(l.chain)
        t == Blockchain_new_transaction(l.chain, l.current_transactions,
                                        Transaction("0", n, 1))
        b == new_block(l.chain, t.current_transactions,
                       proof_of_work(tip.proof), hash(tip), net.time + 1)
        after == [net.ledger EXCEPT ![n] = [chain |-> b.chain,
                                            current_transactions |->
                                                b.current_transactions]]
    IN  /\ net.time < MaxNetTime
        /\ net' = IF tip.cls # "Block"
                  THEN [net EXCEPT !.time = @ + 1,
                                   !.last = [node |-> n, op |-> "mine",
                                             exc |-> "AttributeError",
                                             replaced |-> FALSE]]
                  ELSE [net EXCEPT !.ledger = after,
                                   !.time = @ + 1,
                                   !.last = [node |-> n, op |-> "mine",
                                             exc |-> "none", replaced |-> FALSE],
                                   !.resolved = [m \in Members |-> FALSE],
                                   !.peak = Longest(after, Members)]
        /\ UNCHANGED <<vars, pure, threads>>

\* GET /nodes/resolve of member n, which asks the other members in the
\* order `order`
net_resolve(n) ==
    \E order \in Orders(Members \ {n}) :
        LET resp == [m \in Members |->
                        [raised |-> FALSE, status_code |-> 200,
                         chain |-> json(net.ledger[m].chain),
                         length |-> Len(net.ledger[m].chain)]]
            r == resolve_conflicts(net.ledger[n].chain, order, resp)
        IN  /\ net.time < MaxNetTime
            /\ net' = [net EXCEPT !.ledger[n].chain = r.chain,
                                  !.time = @ + 1,
                                  !.last = [node |-> n, op |-> "consesus",
                                            exc |-> r.exc,
                                            replaced |-> r.replaced],
                                  !.resolved[n] = TRUE]
            /\ UNCHANGED <<vars, pure, threads>>

NextNet ==
    \/ \E n \in Members : net_mine(n)
    \/ \E n \in Members : net_resolve(n)

SpecNet == InitNet /\ [][NextNet]_<<vars, aux>>

\* --------------------------------------------------- concurrent handlers
\* The handlers run in threads without a lock: a thread can be suspended
\* between any two statements, so every access to blockchain.chain and to
\* blockchain.current_transactions is a step of its own.
MaxRequests == 3

\* p1 serves a chain of one block, with its length or a larger one; p2 is down
InitConc ==
    /\ InitFixedPeers
    /\ peer_response["p1"].status_code = 200
    /\ Len(peer_response["p1"].chain) = 1

\* What the steps of the handlers leave alone
Frame == UNCHANGED <<nodes, peer_response, promised, served, pure, net>>

\* Thread t is the first one that handles no request
Free(t) ==
    /\ threads[t].pc = "idle"
    /\ \A u \in Threads : u < t => threads[u].pc # "idle"

\* Thread t goes on as th; a list that a reader refers to and that is still
\* blockchain.chain grows with it when block is appended (grown), and every
\* reader sees the new value ch of blockchain.chain
Readers(t, th, grown, block, ch) ==
    [u \in Threads |->
        IF u = t THEN th
        ELSE IF threads[u].pc \notin {"r_chain", "r_len", "r_send"} THEN threads[u]
        ELSE [threads[u] EXCEPT
                 !.ref = IF grown /\ threads[u].same_list THEN Append(@, block) ELSE @,
                 !.same_list = grown /\ @,
                 !.seen = @ \cup {ch}]]

\* A request arrives and the first free thread takes it
start_mine(t) ==
    /\ Free(t)
    /\ now < MaxRequests
    /\ now' = now + 1
    /\ threads' = [threads EXCEPT ![t] = [Idle EXCEPT !.pc = "m_tip", !.tx = Reward]]
    /\ UNCHANGED <<chain, current_transactions, last, accepted, body>>
    /\ Frame

start_submit(t) ==
    \E tx \in TxSet :
        /\ Free(t)
        /\ now < MaxRequests
        /\ now' = now + 1
        /\ threads' = [threads EXCEPT ![t] = [Idle EXCEPT !.pc = "s_append", !.tx = tx]]
        /\ UNCHANGED <<chain, current_transactions, last, accepted, body>>
        /\ Frame

start_read(t) ==
    /\ Free(t)
    /\ now < MaxRequests
    /\ now' = now + 1
    /\ threads' = [threads EXCEPT ![t] = [Idle EXCEPT !.pc = "r_chain"]]
    /\ UNCHANGED <<chain, current_transactions, last, accepted, body>>
    /\ Frame

start_resolve(t) ==
    /\ Free(t)
    /\ now < MaxRequests
    /\ now' = now + 1
    /\ threads' = [threads EXCEPT ![t] = [Idle EXCEPT !.pc = "c_len"]]
    /\ UNCHANGED <<chain, current_transactions, last, accepted, body>>
    /\ Frame

\* POST /nodes/register, handled in one step by the first free thread
register(t) ==
    \E ns \in SUBSET Addresses :
        /\ Free(t)
        /\ now < MaxRequests
        /\ now' = now + 1
        /\ nodes' = nodes \cup { netloc(a) : a \in ns }
        /\ last' = Outcome("register_new_nodes", "none", Cardinality(ns), FALSE)
        /\ body' = NoBody
        /\ UNCHANGED <<chain, current_transactions, peer_response, promised,
                       served, accepted, aux>>

\* The thread ends its request with outcome out
finish(t, out) ==
    /\ threads' = [threads EXCEPT ![t] = Idle]
    /\ last' = out
    /\ body' = NoBody

\* mine: last_block = blockchain.last_block
read_tip(t) ==
    /\ threads[t].pc = "m_tip"
    /\ threads' = [threads EXCEPT ![t].pc = "m_proof",
                                  ![t].last_block = last_block(chain)]
    /\ UNCHANGED <<body, chain, current_transactions, now, last, accepted>>
    /\ Frame

\* mine: proof = blockchain.proof_of_work(last_block.proof)
search_proof(t) ==
    /\ threads[t].pc = "m_proof"
    /\ IF threads[t].last_block.cls # "Block"
       THEN finish(t, Outcome("mine", "AttributeError", 0, FALSE))
       ELSE /\ threads' = [threads EXCEPT
                               ![t].pc = "m_reward",
                               ![t].proof = proof_of_work(threads[t].last_block.proof)]
            /\ UNCHANGED <<last, body>>
    /\ UNCHANGED <<chain, current_transactions, now, accepted>>
    /\ Frame

\* mine: blockchain.new_transaction(the reward), then
\* previous_hash = blockchain.hash(last_block)
add_reward(t) ==
    LET r == Blockchain_new_transaction(chain, current_transactions, threads[t].tx)
    IN  /\ threads[t].pc = "m_reward"
        /\ current_transactions' = r.current_transactions
        /\ IF r.exc # "none"
           THEN finish(t, Outcome("mine", r.exc, 0, FALSE))
           ELSE /\ threads' = [threads EXCEPT
                                   ![t].pc = "m_block",
                                   ![t].previous_hash = hash(threads[t].last_block)]
                /\ UNCHANGED <<last, body>>
        /\ UNCHANGED <<chain, now, accepted>>
        /\ Frame

\* new_block: block = Block(index=len(self.chain) + 1, ...,
\* transactions=self.current_transactions, ...), a copy of the pool
build_block(t) ==
    /\ threads[t].pc = "m_block"
    /\ threads' = [threads EXCEPT
                       ![t].pc = "m_reset",
                       ![t].block = new_block(chain, current_transactions,
                                              threads[t].proof,
                                              threads[t].previous_hash, now).block]
    /\ UNCHANGED <<body, chain, current_transactions, now, last, accepted>>
    /\ Frame

\* new_block: self.current_transactions = []
reset_pool(t) ==
    /\ threads[t].pc = "m_reset"
    /\ current_transactions' = <<>>
    /\ threads' = [threads EXCEPT ![t].pc = "m_append"]
    /\ UNCHANGED <<body, chain, now, last, accepted>>
    /\ Frame

\* new_block: self.chain.append(block), and mine returns the block
append_block(t) ==
    /\ threads[t].pc = "m_append"
    /\ chain' = Append(chain, threads[t].block)
    /\ threads' = Readers(t, Idle, TRUE, threads[t].block, chain')
    /\ last' = Outcome("mine", "none", threads[t].block.index, FALSE)
    /\ body' = NoBody
    /\ UNCHANGED <<current_transactions, now, accepted>>
    /\ Frame

\* new_transaction: self.current_transactions.append(transaction)
append_tx(t) ==
    /\ threads[t].pc = "s_append"
    /\ current_transactions' = Append(current_transactions, threads[t].tx)
    /\ threads' = [threads EXCEPT ![t].pc = "s_index"]
    /\ UNCHANGED <<body, chain, now, last, accepted>>
    /\ Frame

\* new_transaction: return self.last_block.index + 1, which the handler
\* puts into its message
return_index(t) ==
    LET tip == last_block(chain)
    IN  /\ threads[t].pc = "s_index"
        /\ IF tip.cls # "Block"
           THEN /\ finish(t, Outcome("new_transaction", "AttributeError", 0, FALSE))
                /\ UNCHANGED accepted
           ELSE /\ finish(t, Outcome("new_transaction", "none", tip.index + 1, FALSE))
                /\ accepted' = [accepted EXCEPT ![threads[t].tx] = @ + 1]
        /\ UNCHANGED <<chain, current_transactions, now>>
        /\ Frame

\* get_full_chain: the value of "chain" is the list blockchain.chain itself
read_chain(t) ==
    /\ threads[t].pc = "r_chain"
    /\ threads' = [threads EXCEPT ![t].pc = "r_len", ![t].ref = chain,
                                  ![t].same_list = TRUE, ![t].seen = {chain}]
    /\ UNCHANGED <<body, chain, current_transactions, now, last, accepted>>
    /\ Frame

\* get_full_chain: the value of "length" is len(blockchain.chain)
read_len(t) ==
    /\ threads[t].pc = "r_len"
    /\ threads' = [threads EXCEPT ![t].pc = "r_send", ![t].length = Len(chain)]
    /\ UNCHANGED <<body, chain, current_transactions, now, last, accepted>>
    /\ Frame

\* The framework encodes the dict that get_full_chain returned: the body
\* holds the blocks that the list has at this moment
send_body(t) ==
    /\ threads[t].pc = "r_send"
    /\ threads' = [threads EXCEPT ![t] = Idle]
    /\ last' = Outcome("get_full_chain", "none", threads[t].length, FALSE)
    /\ body' = [chain |-> threads[t].ref, length |-> threads[t].length]
    /\ UNCHANGED <<chain, current_transactions, now, accepted>>
    /\ Frame

\* resolve_conflicts: max_length = len(self.chain)
read_max(t) ==
    /\ threads[t].pc = "c_len"
    /\ threads' = [threads EXCEPT ![t].pc = "c_fetch", ![t].max_length = Len(chain)]
    /\ UNCHANGED <<body, chain, current_transactions, now, last, accepted>>
    /\ Frame

\* resolve_conflicts: the loop over the neighbours
fetch_all(t) ==
    \E order \in Orders(nodes) :
        LET r == resolve_loop(order, 1, Fetch(peer_response),
                              threads[t].max_length, NoChain)
        IN  /\ threads[t].pc = "c_fetch"
            /\ IF r.exc # "none"
               THEN finish(t, Outcome("consesus", r.exc, 0, FALSE))
               ELSE /\ threads' = [threads EXCEPT ![t].pc = "c_replace",
                                                  ![t].new_chain = r.new_chain]
                    /\ UNCHANGED <<last, body>>
            /\ UNCHANGED <<chain, current_transactions, now, accepted>>
            /\ Frame

\* resolve_conflicts: if new_chain: self.chain = new_chain, a new list
replace_chain(t) ==
    /\ threads[t].pc = "c_replace"
    /\ IF truthy(threads[t].new_chain)
       THEN /\ chain' = threads[t].new_chain.chain
            /\ threads' = Readers(t, Idle, FALSE, NoBlock, chain')
            /\ last' = Outcome("consesus", "none", 0, TRUE)
            /\ body' = NoBody
       ELSE /\ finish(t, Outcome("consesus", "none", 0, FALSE))
            /\ UNCHANGED chain
    /\ UNCHANGED <<current_transactions, now, accepted>>
    /\ Frame

NextConc ==
    \/ \E t \in Threads : start_mine(t)
    \/ \E t \in Threads : start_submit(t)
    \/ \E t \in Threads : start_read(t)
    \/ \E t \in Threads : start_resolve(t)
    \/ \E t \in Threads : read_tip(t)
    \/ \E t \in Threads : search_proof(t)
    \/ \E t \in Threads : add_reward(t)
    \/ \E t \in Threads : build_block(t)
    \/ \E t \in Threads : reset_pool(t)
    \/ \E t \in Threads : append_block(t)
    \/ \E t \in Threads : append_tx(t)
    \/ \E t \in Threads : return_index(t)
    \/ \E t \in Threads : read_chain(t)
    \/ \E t \in Threads : read_len(t)
    \/ \E t \in Threads : send_body(t)
    \/ \E t \in Threads : read_max(t)
    \/ \E t \in Threads : fetch_all(t)
    \/ \E t \in Threads : replace_chain(t)
    \/ \E t \in Threads : register(t)

SpecConc == InitConc /\ [][NextConc]_<<vars, aux>>

\* ----------------------------------------------------------------- claims
\* The validation of section 4.3 on the content of a chain: every adjacent
\* pair is linked by hash and by proof
PassesValidChain(c) ==
    \A i \in 2..Len(c) :
        /\ c[i].previous_hash = hash(c[i - 1])
        /\ valid_proof(c[i - 1].proof, c[i].proof)

Returned(op) == last.op = op /\ last.exc = "none"

\* The registered peers that answer with status 200
Answering == { n \in nodes \cap Peers :
                 ~peer_response[n].raised /\ peer_response[n].status_code = 200 }

\* The registered nodes whose fetch fails: the request raises, or the status
\* is not 200
Failing == nodes \ Answering

\* C1: in every reachable state the local chain passes valid_chain: every
\* non-genesis block holds the hash of the block before it and a proof that
\* is valid for the proof of the block before it.
C1_ChainIsValid ==
    /\ valid_chain(chain) = "True"
    /\ PassesValidChain(chain)

\* C1 witness: a chain of three blocks, two of them mined
C1_Witness == Returned("mine") /\ Len(chain) >= 3

\* C2: resolve() returns true and replaces the local chain with a peer's
\* chain if some answering peer reports a length strictly greater than the
\* local length and its chain passes validation; otherwise it returns false
\* and leaves the chain as it was.  (Stated for a resolve in which every
\* registered node answers with a chain of at least one block; a failing
\* fetch is the case of C9, an empty chain that of C6.)
C2_ReplacesIffLongerValid ==
    [][ (/\ last'.op = "consesus"
         /\ Failing = {}
         /\ \A n \in Answering : peer_response[n].chain # <<>>) =>
          LET cands == { n \in Answering :
                           /\ peer_response[n].length > Len(chain)
                           /\ PassesValidChain(peer_response[n].chain) }
          IN  /\ last'.exc = "none"
              /\ last'.replaced = (cands # {})
              /\ IF cands # {}
                 THEN \E n \in cands : chain' = peer_response[n].chain
                 ELSE chain' = chain ]_vars

\* C3: a resolve() that returns true leaves strictly more blocks than there
\* were, and no resolve() leaves fewer.
C3_ResolveOnlyGrows ==
    [][ last'.op = "consesus" =>
          /\ Len(chain') >= Len(chain)
          /\ (last'.exc = "none" /\ last'.replaced => Len(chain') > Len(chain)) ]_vars

\* C4: a mine() that returns has appended one block whose transactions are
\* the pool as it was at the start of the call, in order, followed by one
\* reward transaction, and has left the pool empty.
C4_MineCapturesPool ==
    [][ (last'.op = "mine" /\ last'.exc = "none") =>
          /\ Len(chain') = Len(chain) + 1
          /\ chain'[Len(chain')].transactions = Append(current_transactions, Reward)
          /\ current_transactions' = <<>> ]_vars

\* C4 witness: a block mined from a pool of two different transactions
C4_Witness ==
    /\ Returned("mine")
    /\ LET txs == chain[Len(chain)].transactions
       IN  Len(txs) = 3 /\ txs[1] # txs[2] /\ txs[3] = Reward

\* C5: submit_transaction, read_chain, register_node and a resolve() that
\* returns false leave the chain unchanged; every mine() keeps the old chain
\* as a prefix and makes the chain one block longer.
C5_ChainChangesOnlyByMineOrReplace ==
    [][ /\ (last'.op \in {"new_transaction", "get_full_chain", "register_new_nodes"}
              => chain' = chain)
        /\ (last'.op = "consesus" /\ last'.exc = "none" /\ ~last'.replaced
              => chain' = chain)
        /\ (last'.op = "mine"
              => /\ Len(chain') = Len(chain) + 1
                 /\ SubSeq(chain', 1, Len(chain)) = chain) ]_vars

\* C6: the local chain is never empty, whatever chains and lengths the
\* peers supply.
C6_ChainNeverEmpty == Len(chain) >= 1

\* C6 witness: a resolve that was offered an empty chain under a length
\* greater than the local one
C6_Witness ==
    /\ last.op = "consesus"
    /\ \E n \in Answering :
         /\ peer_response[n].chain = <<>>
         /\ peer_response[n].length > Len(chain)

\* C7: the block at position i of the local chain (counted from 1) has
\* index i.
C7_IndicesContiguous == \A i \in 1..Len(chain) : chain[i].index = i

\* C8: a resolve() that directly follows a resolve() (nothing done on the
\* node and no peer answer changed in between) returns false and leaves the
\* chain unchanged.  (Stated for a first call that returned.)
C8_ResolveIdempotent ==
    [][ (Returned("consesus") /\ last'.op = "consesus") =>
          /\ last'.exc = "none"
          /\ ~last'.replaced
          /\ chain' = chain ]_vars

\* C9: a node whose fetch fails is skipped: resolve() ends as it would with
\* only the other nodes registered, with the same result and the same chain.
C9_FailingPeerSkipped ==
    [][ last'.op = "consesus" =>
          \E order \in Orders(Answering) :
              LET r == resolve_conflicts(chain, order, peer_response)
              IN  /\ last'.exc = r.exc
                  /\ last'.replaced = r.replaced
                  /\ chain' = r.chain ]_vars

\* C10: when a mine() returns, every transaction submitted since the last
\* mined block is in the block whose index its submission returned,
\* whatever ran in between.
C10_PromisedIndexKept ==
    Returned("mine") =>
        \A a \in served :
            \E i \in 1..Len(chain) :
                /\ chain[i].index = a.index
                /\ \E j \in 1..Len(chain[i].transactions) :
                     chain[i].transactions[j] = a.tx

\* C10 witness: a mined block serving a promise made before a resolve
C10_Witness == Returned("mine") /\ \E a \in served : a.resolved

\* C11: whenever a transaction is submitted, the request returns, the
\* transaction becomes the last element of the pool, the chain and the set
\* of nodes stay as they were, and the index returned is the length of the
\* chain plus one
C11_SubmitAppendsAndReturnsNext ==
    [][ last'.op = "new_transaction" =>
            /\ \E tx \in TxSet : current_transactions' = Append(current_transactions, tx)
            /\ chain' = chain
            /\ nodes' = nodes
            /\ last'.exc = "none"
            /\ last'.index = Len(chain) + 1 ]_vars

\* How often tx occurs in the sequence txs, and in the blocks of chain ch
CountIn(txs, tx) == Cardinality({ i \in DOMAIN txs : txs[i] = tx })
InBlocks(ch, tx) ==
    Cardinality(UNION { { <<b, i>> : i \in { i \in DOMAIN ch[b].transactions :
                                                ch[b].transactions[i] = tx } } :
                        b \in DOMAIN ch })

\* No resolve() has replaced the chain: it holds the Block objects this node
\* built (a chain taken from a peer holds the dicts of its JSON)
OwnChain == \A i \in DOMAIN chain : chain[i].cls = "Block"

C13_ProofIsSmallestValid ==
    pure.proof # -1 =>
        /\ pure.proof >= 0
        /\ valid_proof(pure.last_proof, pure.proof)
        /\ \A q \in 0..(pure.proof - 1) : ~valid_proof(pure.last_proof, q)

\* proof_of_work has returned a proof that it reached after invalid ones
C13_Witness ==
    /\ pure.proof >= 2
    /\ ~valid_proof(pure.last_proof, 0)
    /\ valid_proof(pure.last_proof, pure.proof)

\* C14: valid_chain never raises on a list of blocks: it returns true for a
\* candidate of fewer than two blocks, the empty one included, and for one
\* whose adjacent pairs all pass the link and the proof check, and false
\* otherwise, whatever the index fields say
C14_ValidChainTotal ==
    (pure.verdict # "none" /\ \A i \in DOMAIN pure.candidate : pure.candidate[i].cls = "Block") =>
        pure.verdict = IF Len(pure.candidate) < 2 \/ PassesValidChain(pure.candidate)
                       THEN "True" ELSE "False"

\* C15: right after construction the chain is one block with index 1, no
\* transactions, proof 100 and the previous hash "1", the pool is empty and
\* no node is registered; a read of the chain made then returns that one
\* block and the length 1
C15_FreshLedger ==
    /\ now = 0 =>
            /\ Len(chain) = 1
            /\ chain[1].index = 1
            /\ chain[1].transactions = <<>>
            /\ chain[1].proof = 100
            /\ chain[1].previous_hash = <<"1">>
            /\ current_transactions = <<>>
            /\ nodes = {}
    /\ (now = 1 /\ last.op = "get_full_chain") =>
            /\ body.length = 1
            /\ Len(body.chain) = 1
            /\ body.chain[1].index = 1
            /\ body.chain[1].transactions = <<>>
            /\ body.chain[1].proof = 100
            /\ body.chain[1].previous_hash = <<"1">>

\* The first request to a fresh ledger was a read of the chain
C15_Witness ==
    /\ now = 1
    /\ Returned("get_full_chain")
    /\ body # NoBody

\* The registered peers that answer with a chain that passes the validation
\* and a reported length above the length of the local chain
Longer == { n \in Answering : /\ PassesValidChain(peer_response[n].chain)
                              /\ peer_response[n].length > Len(chain) }

\* C19: when resolve() returns true the chain adopted is that of an
\* answering peer with a valid chain whose reported length is above the
\* local length and is the largest among such peers; and with one registered
\* peer that holds a valid chain longer than the local one, resolve() returns
\* true and the local chain is the peer's chain afterwards
C19_AdoptsLongestValid ==
    [][ last'.op = "consesus" =>
            /\ (last'.exc = "none" /\ last'.replaced) =>
                    \E n \in Longer :
                        /\ chain' = peer_response[n].chain
                        /\ \A m \in Longer :
                               peer_response[m].length <= peer_response[n].length
            /\ \A n \in Longer :
                    (/\ nodes = {n}
                     /\ Len(peer_response[n].chain) > Len(chain)
                     /\ peer_response[n].length = Len(peer_response[n].chain))
                    => /\ last'.exc = "none"
                       /\ last'.replaced
                       /\ chain' = peer_response[n].chain ]_vars

\* C20: once every member has ended a resolve() after the last mine() of the
\* network, all members' chains have the same length, the length of the
\* longest chain at the time mining stopped
C20_HonestNodesConverge ==
    (\A n \in Members : net.resolved[n]) =>
        \A n \in Members : Len(net.ledger[n].chain) = net.peak

\* No request is being handled
Quiescent == \A t \in Threads : threads[t].pc = "idle"

\* C16: whatever the interleaving of the handlers, a block is only ever
\* appended with the hash of the block that is before it at that moment as
\* its previous_hash, no two blocks of the chain have the same index, and
\* the chain keeps passing the validation
C16_MutationsExclusive ==
    [][ /\ (Len(chain') = Len(chain) + 1 /\ SubSeq(chain', 1, Len(chain)) = chain) =>
                chain'[Len(chain')].previous_hash = hash(chain[Len(chain)])
        /\ \A i, j \in DOMAIN chain' : i # j => chain'[i].index # chain'[j].index
        /\ PassesValidChain(chain') ]_<<vars, aux>>

\* C17: whatever the interleaving of submissions and mines, once the
\* requests have ended every acknowledged transaction is in the pool or in
\* exactly one block of the chain this node built: none is lost and none is
\* in two blocks
C17_PoolCapturedAtomically ==
    (Quiescent /\ OwnChain) =>
        \A tx \in TxSet :
            CountIn(current_transactions, tx) + InBlocks(chain, tx) = accepted[tx]

\* C18: the body of a response to GET /chain holds a length equal to the
\* number of blocks it holds, and the chain it holds is a value that
\* blockchain.chain had during the read, whole
C18_ReadIsSnapshot ==
    [][ \A t \in Threads :
            (threads[t].pc = "r_send" /\ threads'[t].pc = "idle") =>
                /\ body'.length = Len(body'.chain)
                /\ body'.chain \in threads[t].seen ]_<<vars, aux>>

====
